---- MODULE Spec2Model ----
(***************************************************************************)
(* Camera/lidar time-to-collision estimation: camFusion_Student.cpp and    *)
(* the frame loop of FinalProject_Camera.cpp.                              *)
(*                                                                         *)
(* Arithmetic.  The C++ code computes in IEEE doubles.  The model computes *)
(* the same expressions in exact arithmetic extended with the IEEE special *)
(* values: a number is NaN, +Inf, -Inf, or a finite value p + q*sqrt(r)    *)
(* with p, q, r exact rationals over integers of unbounded size.  Rounding *)
(* is therefore not modelled (float dT = 1.0/frameRate is the exact        *)
(* 1/frameRate); division by zero, 0/0, Inf-Inf, sqrt of a negative and    *)
(* comparisons with NaN follow IEEE 754.  Every zero divisor the code can  *)
(* produce is +0.0 (a difference of equal values), so x/0 has the sign of  *)
(* x.                                                                      *)
(***************************************************************************)
EXTENDS Integers, Sequences, FiniteSets, TLC

(***************************************************************************)
(* Integers of unbounded size: little-endian sequences of limbs in base    *)
(* Base, every limb in [-Base/2, Base/2), no leading zero limb.  The       *)
(* representation is canonical, so equality is equality of sequences and   *)
(* the sign is the sign of the top limb.  Products of two limbs and the    *)
(* sums of them formed below stay far inside the checker's integers.       *)
(*                                                                         *)
(* Exact rationals are records [n, d] of such integers with d > 0, reduced *)
(* by the common content of the limbs; they are compared by the sign of a  *)
(* difference, never by equality of representations.                       *)
(*                                                                         *)
(* A double is NaN, +Inf, -Inf or the finite value p + q*sqrt(r) with      *)
(* rationals p, q, r, r >= 0, and q = 0 implies r = 0.                     *)
(*                                                                         *)
(* The operations are the cases of the one recursive operator Arith; the   *)
(* named operators in front of it are how the rest of the module, and      *)
(* Arith itself, apply them.                                               *)
(***************************************************************************)
Base == 10^4

Half == Base \div 2

RECURSIVE GCD(_, _)
GCD(a, b) == IF b = 0 THEN a ELSE GCD(b, a % b)

Abs(n) == IF n < 0 THEN -n ELSE n

RECURSIVE BTrim(_)
BTrim(s) ==
    IF s = <<>> \/ s[Len(s)] # 0 THEN s ELSE BTrim(SubSeq(s, 1, Len(s) - 1))

\* the limb of t in [-Half, Half)
Limb(t) == ((t + Half) % Base) - Half

RECURSIVE BCarry(_, _)
BCarry(s, c) ==
    IF s = <<>>
    THEN IF c = 0 THEN <<>> ELSE BCarry(<<c>>, 0)
    ELSE <<Limb(Head(s) + c)>> \o BCarry(Tail(s), (Head(s) + c - Limb(Head(s) + c)) \div Base)

BLimb(a, i) == IF i >= 1 /\ i <= Len(a) THEN a[i] ELSE 0

RECURSIVE BConv(_, _, _, _)
BConv(a, b, k, i) ==
    \* sum of a[i]*b[k+1-i], a[i+1]*b[k-i], ...
    IF i > Len(a) \/ i > k THEN 0
    ELSE a[i] * BLimb(b, k + 1 - i) + BConv(a, b, k, i + 1)

BSign(a) == IF a = <<>> THEN 0 ELSE IF a[Len(a)] > 0 THEN 1 ELSE -1

RECURSIVE BContentFrom(_, _)
BContentFrom(a, i) ==
    IF i > Len(a) THEN 0 ELSE GCD(Abs(a[i]), BContentFrom(a, i + 1))

BDivExact(a, g) == IF g = 1 THEN a ELSE [i \in 1..Len(a) |-> a[i] \div g]

BToInt(a) == BLimb(a, 1) + Base * BLimb(a, 2)

\* Integer square root of a natural number
RECURSIVE ISqrtFrom(_, _)
ISqrtFrom(n, x) ==
    IF (x + n \div x) \div 2 >= x THEN x ELSE ISqrtFrom(n, (x + n \div x) \div 2)

ISqrt(n) == IF n < 2 THEN n ELSE ISqrtFrom(n, n)

RSign(a) == BSign(a.n)

R0 == [n |-> <<>>, d |-> <<1>>]

R1 == [n |-> <<1>>, d |-> <<1>>]

\* rationals whose numerator and denominator have at most two limbs
RIsSquare(a) ==
    /\ Len(a.n) <= 2 /\ Len(a.d) <= 2
    /\ ISqrt(BToInt(a.n)) * ISqrt(BToInt(a.n)) = BToInt(a.n)
    /\ ISqrt(BToInt(a.d)) * ISqrt(BToInt(a.d)) = BToInt(a.d)

NaN == [k |-> "nan"]

PInf == [k |-> "pinf"]

NInf == [k |-> "ninf"]

IsNaN(x) == x.k = "nan"

IsFin(x) == x.k = "fin"

IsInf(x) == x.k = "pinf" \/ x.k = "ninf"

InfOfSign(s) == IF s > 0 THEN PInf ELSE IF s < 0 THEN NInf ELSE NaN

\* An expression the exact arithmetic cannot represent: evaluating it stops
\* the model checker with an error instead of yielding a wrong value.
Unrepresentable == CHOOSE x \in {} : TRUE

RECURSIVE Arith(_, _, _)

BNorm(s) == Arith("BNorm", s, 0)

BFromInt(n) == Arith("BFromInt", n, 0)

BNeg(a) == Arith("BNeg", a, 0)

BAdd(a, b) == Arith("BAdd", a, b)

BMul(a, b) == Arith("BMul", a, b)

\* n/d for d # 0
RMake(n, d) == Arith("RMake", n, d)

RFrac(n, d) == RMake(BFromInt(n), BFromInt(d))

RNeg(a) == [n |-> BNeg(a.n), d |-> a.d]

RAdd(a, b) == Arith("RAdd", a, b)

RSub(a, b) == RAdd(a, RNeg(b))

RMul(a, b) == RMake(BMul(a.n, b.n), BMul(a.d, b.d))

\* b # 0
RDiv(a, b) == RMake(BMul(a.n, b.d), BMul(a.d, b.n))

REq(a, b) == RSign(RSub(a, b)) = 0

RSqrtExact(a) == RFrac(ISqrt(BToInt(a.n)), ISqrt(BToInt(a.d)))

\* the finite value p + q*sqrt(r)
Fin(p, q, r) == Arith("Fin", p, <<q, r>>)

Num(n) == Arith("Num", n, 1)

Frac(n, d) == Arith("Num", n, d)

\* sign of the finite value p + q*sqrt(r)
FinSign(x) == Arith("FinSign", x, 0)

\* -1, 0, 1 for a number other than NaN
XSign(x) == IF x.k = "pinf" THEN 1 ELSE IF x.k = "ninf" THEN -1 ELSE FinSign(x)

XNeg(x) == Arith("XNeg", x, 0)

XAdd(a, b) == Arith("XAdd", a, b)

XSub(a, b) == Arith("XSub", a, b)

XMul(a, b) == Arith("XMul", a, b)

\* 1/b for a finite b # 0
FinInv(b) == Arith("FinInv", b, 0)

XDiv(a, b) == Arith("XDiv", a, b)

XSqrt(x) == Arith("XSqrt", x, 0)

\* IEEE comparisons: false as soon as an operand is NaN
XLt(a, b) == Arith("XLt", a, b)

XGt(a, b) == Arith("XLt", b, a)

XEq(a, b) == Arith("XEq", a, b)

XGe(a, b) == Arith("XGe", a, b)

XNe(a, b) == ~XEq(a, b)

\* std::min(a, b): (b < a) ? b : a
XMin(a, b) == IF XLt(b, a) THEN b ELSE a

\* std::pow(x, 2)
XSq(x) == Arith("XMul", x, x)

Arith(op, a, b) ==
    CASE op = "BNorm" -> BTrim(BCarry(a, 0))
      [] op = "BFromInt" ->
           IF a = 0 THEN <<>>
           ELSE IF a > -Half /\ a < Half THEN <<a>> ELSE BNorm(<<a>>)
      [] op = "BNeg" ->
           IF \A i \in 1..Len(a) : a[i] # -Half
           THEN [i \in 1..Len(a) |-> -a[i]]
           ELSE BNorm([i \in 1..Len(a) |-> -a[i]])
      [] op = "BAdd" ->
           IF a = <<>> THEN b
           ELSE IF b = <<>> THEN a
           ELSE IF Len(a) = 1 /\ Len(b) = 1 /\ Abs(a[1] + b[1]) < Half
           THEN (IF a[1] + b[1] = 0 THEN <<>> ELSE <<a[1] + b[1]>>)
           ELSE BNorm([i \in 1..(IF Len(a) > Len(b) THEN Len(a) ELSE Len(b)) |->
                          BLimb(a, i) + BLimb(b, i)])
      [] op = "BMul" ->
           IF a = <<>> \/ b = <<>> THEN <<>>
           ELSE IF Len(a) = 1 /\ Len(b) = 1 THEN BFromInt(a[1] * b[1])
           ELSE BNorm([k \in 1..(Len(a) + Len(b) - 1) |-> BConv(a, b, k, 1)])
      [] op = "RMake" ->
           IF a = <<>> THEN R0
           ELSE LET g == GCD(BContentFrom(a, 1), BContentFrom(b, 1))
                IN  IF BSign(b) < 0
                    THEN [n |-> BNeg(BDivExact(a, g)), d |-> BNeg(BDivExact(b, g))]
                    ELSE [n |-> BDivExact(a, g), d |-> BDivExact(b, g)]
      [] op = "RAdd" ->
           IF a.d = b.d THEN RMake(BAdd(a.n, b.n), a.d)
           ELSE RMake(BAdd(BMul(a.n, b.d), BMul(b.n, a.d)), BMul(a.d, b.d))
      [] op = "Fin" ->
           IF RSign(b[1]) = 0 \/ RSign(b[2]) = 0
           THEN [k |-> "fin", p |-> a, q |-> R0, r |-> R0]
           ELSE [k |-> "fin", p |-> a, q |-> b[1], r |-> b[2]]
      [] op = "Num" -> [k |-> "fin", p |-> RFrac(a, b), q |-> R0, r |-> R0]
      [] op = "FinSign" ->
           IF RSign(a.q) = 0 THEN RSign(a.p)
           ELSE IF RSign(a.p) = 0 \/ RSign(a.p) = RSign(a.q) THEN RSign(a.q)
           ELSE RSign(a.p) * RSign(RSub(RMul(a.p, a.p), RMul(RMul(a.q, a.q), a.r)))
      [] op = "XNeg" ->
           CASE a.k = "nan"  -> NaN
             [] a.k = "pinf" -> NInf
             [] a.k = "ninf" -> PInf
             [] OTHER        -> Fin(RNeg(a.p), RNeg(a.q), a.r)
      [] op = "XAdd" ->
           CASE IsNaN(a) \/ IsNaN(b) -> NaN
             [] IsInf(a) /\ IsInf(b) -> IF a.k = b.k THEN a ELSE NaN
             [] IsInf(a)             -> a
             [] IsInf(b)             -> b
             [] OTHER ->
                  IF RSign(a.q) = 0 THEN Fin(RAdd(a.p, b.p), b.q, b.r)
                  ELSE IF RSign(b.q) = 0 THEN Fin(RAdd(a.p, b.p), a.q, a.r)
                  ELSE IF REq(a.r, b.r) THEN Fin(RAdd(a.p, b.p), RAdd(a.q, b.q), a.r)
                  ELSE Unrepresentable
      [] op = "XSub" -> XAdd(a, XNeg(b))
      [] op = "XMul" ->
           CASE IsNaN(a) \/ IsNaN(b) -> NaN
             [] IsInf(a) \/ IsInf(b) -> InfOfSign(XSign(a) * XSign(b))
             [] OTHER ->
                  IF RSign(a.q) = 0
                  THEN Fin(RMul(a.p, b.p), RMul(a.p, b.q), b.r)
                  ELSE IF RSign(b.q) = 0
                  THEN Fin(RMul(a.p, b.p), RMul(a.q, b.p), a.r)
                  ELSE IF REq(a.r, b.r)
                  THEN Fin(RAdd(RMul(a.p, b.p), RMul(RMul(a.q, b.q), a.r)),
                           RAdd(RMul(a.p, b.q), RMul(a.q, b.p)), a.r)
                  ELSE Unrepresentable
      [] op = "FinInv" ->
           IF RSign(a.q) = 0 THEN Fin(RDiv(R1, a.p), R0, R0)
           ELSE LET nrm == RSub(RMul(a.p, a.p), RMul(RMul(a.q, a.q), a.r))
                IN  Fin(RDiv(a.p, nrm), RNeg(RDiv(a.q, nrm)), a.r)
      [] op = "XDiv" ->
           CASE IsNaN(a) \/ IsNaN(b) -> NaN
             [] IsInf(a) /\ IsInf(b) -> NaN
             [] IsInf(a)             -> IF XSign(b) < 0 THEN XNeg(a) ELSE a
             [] IsInf(b)             -> Num(0)
             [] OTHER ->
                  IF FinSign(b) = 0 THEN InfOfSign(FinSign(a))
                  ELSE XMul(a, FinInv(b))
      [] op = "XSqrt" ->
           CASE a.k = "nan"  -> NaN
             [] a.k = "pinf" -> PInf
             [] a.k = "ninf" -> NaN
             [] OTHER ->
                  IF RSign(a.q) # 0 THEN Unrepresentable
                  ELSE IF RSign(a.p) < 0 THEN NaN
                  ELSE IF RIsSquare(a.p) THEN Fin(RSqrtExact(a.p), R0, R0)
                  ELSE Fin(R0, R1, a.p)
      [] op = "XLt" ->
           CASE IsNaN(a) \/ IsNaN(b) -> FALSE
             [] a.k = "pinf" \/ b.k = "ninf" -> FALSE
             [] a.k = "ninf" \/ b.k = "pinf" -> TRUE
             [] OTHER -> FinSign(XSub(b, a)) > 0
      [] op = "XEq" ->
           CASE IsNaN(a) \/ IsNaN(b) -> FALSE
             [] IsInf(a) \/ IsInf(b) -> a.k = b.k
             [] OTHER -> FinSign(XSub(a, b)) = 0
      [] op = "XGe" -> XGt(a, b) \/ XEq(a, b)

(***************************************************************************)
(* Bounds and inputs.                                                      *)
(***************************************************************************)
MaxCalls == 3

MaxX == 2

MaxKinPts == 2

MaxPts == 5

\* imgStepWidth (main, 39) is 1; 10 is the step that makes dT = 1 s
ImgStepWidths == {1, 10}

sensorFrameRate(imgStepWidth) == 10 \div imgStepWidth

LidarPointAt(x, y, z, r) == [x |-> x, y |-> y, z |-> z, r |-> r]

RECURSIVE SeqOfSet(_)
SeqOfSet(S) ==
    IF S = {} THEN <<>>
    ELSE LET m == CHOOSE x \in S : \A y \in S : x <= y
         IN  <<m>> \o SeqOfSet(S \ {m})

\* Point lists of the multi-call specification: at most MaxKinPts points,
\* distances strictly increasing in 0..MaxX, intensities 1, 2, ... in list
\* order.
KinClouds ==
    { [i \in 1..Len(xs) |-> LidarPointAt(xs[i], 0, 0, i)] :
        xs \in { SeqOfSet(X) : X \in { Y \in SUBSET (0..MaxX) : Cardinality(Y) <= MaxKinPts } } }

\* Point lists of the single-call specification: every list of at most
\* MaxPts points with x in {2, 3} and intensity in {1, 2}, in a fixed order
\* of the point values (the code's sums and minimum do not depend on order).
FramePoints == { LidarPointAt(x, 0, 0, r) : x \in {2, 3}, r \in {1, 2} }

RECURSIVE SortedLists(_)
SortedLists(n) ==
    IF n = 0 THEN {<<>>}
    ELSE LET shorter == SortedLists(n - 1)
         IN  shorter \cup
             { Append(l, pt) : l \in { m \in shorter : Len(m) = n - 1 },
                               pt \in FramePoints }

FrameClouds ==
    { l \in SortedLists(MaxPts) :
        \A i \in 1..(Len(l) - 1) : 2 * l[i].x + l[i].r <= 2 * l[i + 1].x + l[i + 1].r }

\* the sublists of at most n elements of the list l, in the order of l
SubLists(l, n) ==
    { [i \in 1..Len(ix) |-> l[ix[i]]] :
        ix \in { SeqOfSet(X) : X \in { Y \in SUBSET (1..Len(l)) : Cardinality(Y) <= n } } }

\* The image loop draws each image's cropped cloud from DriverPoints, at
\* most MaxDriverPts of them.
MaxDriverPts == 2

\* under P_rect_00, R_rect_00 and RT below the first three project into the
\* first of DriverRois only, the fourth into the second only
DriverPoints ==
    << LidarPointAt(2, 1, 0, 1),  LidarPointAt(3, 1, 0, 2), LidarPointAt(4, 1, 0, 1),
       LidarPointAt(3, -3, 0, 1) >>

DriverClouds == SubLists(DriverPoints, MaxDriverPts)

(***************************************************************************)
(* computeTTCLidar (camFusion_Student.cpp:244-357).  A lidar point is a    *)
(* record [x, y, z, r] of integers; x is the forward distance and r the    *)
(* reflectivity.                                                           *)
(***************************************************************************)
\* minXPrev / minXCurr start value, and the "not yet initialized" value of
\* vehicleVel / vehicleAcc
minXInit == Num(10^9)

NotInitialized == Num(-(10^9))

DistThreshold == Num(2)

intensityThreshold == Frac(16, 10)

RECURSIVE SumOf(_, _, _)
\* f = "x": sum of x; "xx": sum of x^2; "r": sum of r; "rr": sum of r^2
SumOf(pts, f, i) ==
    IF i > Len(pts) THEN 0
    ELSE (CASE f = "x"  -> pts[i].x
            [] f = "xx" -> pts[i].x * pts[i].x
            [] f = "r"  -> pts[i].r
            [] f = "rr" -> pts[i].r * pts[i].r) + SumOf(pts, f, i + 1)

\* lines 271-272 / 275-276: sqrt(sum of squares / size - mean^2)
stdDev(sqSum, size, mean) == XSqrt(XSub(XDiv(Num(sqSum), size), XSq(mean)))

\* lines 269-276 given the two means
lidarStatsOf(pts, size, XMean, IMean) ==
    [ XMean |-> XMean,
      XStd  |-> stdDev(SumOf(pts, "xx", 1), size, XMean),
      IMean |-> IMean,
      IStd  |-> stdDev(SumOf(pts, "rr", 1), size, IMean) ]

\* mean and standard deviation of x and of the intensity of one frame's points
lidarStats(pts) ==
    lidarStatsOf(pts, Num(Len(pts)),
                 XDiv(Num(SumOf(pts, "x", 1)), Num(Len(pts))),
                 XDiv(Num(SumOf(pts, "r", 1)), Num(Len(pts))))

\* the band test without its intensity half
inBandDistanceOnly(pt, st) ==
    /\ XGt(Num(pt.x), XSub(st.XMean, XMul(DistThreshold, st.XStd)))
    /\ XLt(Num(pt.x), XAdd(st.XMean, XMul(DistThreshold, st.XStd)))

\* the test of lines 287-288 / 294-295
inBand(pt, st) ==
    /\ XGt(Num(pt.x), XSub(st.XMean, XMul(DistThreshold, st.XStd)))
    /\ XLt(Num(pt.x), XAdd(st.XMean, XMul(DistThreshold, st.XStd)))
    /\ XGt(Num(pt.r), XSub(st.IMean, XMul(intensityThreshold, st.IStd)))
    /\ XLt(Num(pt.r), XAdd(st.IMean, XMul(intensityThreshold, st.IStd)))

RECURSIVE minXLoop(_, _, _, _)
minXLoop(pts, st, i, minX) ==
    IF i > Len(pts) THEN minX
    ELSE minXLoop(pts, st, i + 1,
                  IF inBand(pts[i], st)
                  THEN (IF XGt(minX, Num(pts[i].x)) THEN Num(pts[i].x) ELSE minX)
                  ELSE minX)

\* closest distance of one frame: lines 255-297 for one of the two lists
minXCompute(pts) == minXLoop(pts, lidarStats(pts), 1, minXInit)

\* minXCompute tabulated over the point lists the specifications draw from,
\* so that it is evaluated once per list
minXTable == [pts \in KinClouds \cup FrameClouds \cup DriverClouds |-> minXCompute(pts)]

\* TTC = minXCurr * dT / (minXPrev - minXCurr)
constantVelocityTTC(minXPrev, minXCurr, dT) ==
    XDiv(XMul(minXCurr, dT), XSub(minXPrev, minXCurr))

\* lines 325-341: the value of TTC for d > 0, given the two roots
selectRoot(TTC1, TTC2, TTC) ==
    IF XGt(TTC1, Num(0)) /\ XGt(TTC2, Num(0)) THEN XMin(TTC1, TTC2)
    ELSE IF XGt(TTC1, Num(0)) /\ XLt(TTC2, Num(0)) THEN TTC1
    ELSE IF XLt(TTC1, Num(0)) /\ XGt(TTC2, Num(0)) THEN TTC2
    ELSE TTC

\* lines 320-343 given the discriminant d; the roots are
\* (-b - sqrt(d)) / 2 * a and (-b + sqrt(d)) / 2 * a
solveWith(a, b, d, TTC) ==
    IF XGt(d, Num(0))
    THEN selectRoot(XMul(XDiv(XSub(XNeg(b), XSqrt(d)), Num(2)), a),
                    XMul(XDiv(XAdd(XNeg(b), XSqrt(d)), Num(2)), a), TTC)
    ELSE IF XEq(d, Num(0)) THEN XDiv(b, XMul(Num(-2), a))
    ELSE TTC

\* lines 319-343 given the coefficients: d = b^2 - 4ac
solve(a, b, c, TTC) ==
    solveWith(a, b, XSub(XMul(b, b), XMul(XMul(Num(4), a), c)), TTC)

\* lines 316-343: the value of TTC after the quadratic branch, with
\* a = 1, b = vehicleVel / (0.5 * vehicleAcc), c = -minXCurr / (0.5 * vehicleAcc)
quadraticTTC(minXCurr, vehicleVel, vehicleAcc, TTC) ==
    solve(Num(1), XDiv(vehicleVel, XMul(Frac(1, 2), vehicleAcc)),
          XDiv(XNeg(minXCurr), XMul(Frac(1, 2), vehicleAcc)), TTC)

\* line 302: vehicleVelCurr = (minXPrev - minXCurr) / dT
velocityOf(minXPrev, minXCurr, dT) == XDiv(XSub(minXPrev, minXCurr), dT)

\* lines 299-307: vehicleAcc after the update at the start of the call
accUpdate(vehicleVel, vehicleAcc, minXPrev, minXCurr, dT) ==
    IF XNe(vehicleVel, NotInitialized) /\ XEq(vehicleAcc, NotInitialized)
    THEN XDiv(XSub(velocityOf(minXPrev, minXCurr, dT), vehicleVel), dT)
    ELSE vehicleAcc

\* no fallback at all
useFallbackNever(vehicleAcc) == FALSE

\* line 312: the constant-acceleration model falls back to constant velocity
useFallback(vehicleAcc) == XEq(vehicleAcc, NotInitialized)

\* lines 348-354: vehicleVel after a constant-acceleration call
velUpdate(vehicleVel, vehicleAcc, minXPrev, minXCurr, dT) ==
    IF XEq(vehicleVel, NotInitialized) /\ XEq(vehicleAcc, NotInitialized)
    THEN velocityOf(minXPrev, minXCurr, dT)
    ELSE XAdd(vehicleVel, XMul(vehicleAcc, dT))

\* lines 308-354, after the update of vehicleAcc to acc1
ttcAndVelocity(minXPrev, minXCurr, dT, TTC, vehicleVel, acc1, TTCcalModel) ==
    IF TTCcalModel = 0
    THEN [ TTC        |-> constantVelocityTTC(minXPrev, minXCurr, dT),
           vehicleVel |-> vehicleVel,
           vehicleAcc |-> acc1,
           minXPrev   |-> minXPrev,
           minXCurr   |-> minXCurr ]
    ELSE [ TTC        |-> IF useFallback(acc1)
                          THEN constantVelocityTTC(minXPrev, minXCurr, dT)
                          ELSE quadraticTTC(minXCurr, vehicleVel, acc1, TTC),
           vehicleVel |-> velUpdate(vehicleVel, acc1, minXPrev, minXCurr, dT),
           vehicleAcc |-> acc1,
           minXPrev   |-> minXPrev,
           minXCurr   |-> minXCurr ]

\* lines 299-354 given the two closest distances and dT
kinematics(minXPrev, minXCurr, dT, TTC, vehicleVel, vehicleAcc, TTCcalModel) ==
    ttcAndVelocity(minXPrev, minXCurr, dT, TTC, vehicleVel, accUpdate(vehicleVel, vehicleAcc, minXPrev, minXCurr, dT), TTCcalModel)

\* The whole function.  TTC, vehicleVel and vehicleAcc are reference
\* parameters: the result holds their values on return, and the two local
\* closest distances.
computeTTCLidar(lidarPointsPrev, lidarPointsCurr, frameRate, TTC, vehicleVel, vehicleAcc, TTCcalModel) ==
    kinematics(minXTable[lidarPointsPrev], minXTable[lidarPointsCurr], XDiv(Num(1), Num(frameRate)), TTC, vehicleVel, vehicleAcc, TTCcalModel)

(***************************************************************************)
(* OpenCV and dataStructures.h types used by the functions below.          *)
(*   cv::Point / cv::Point2f   [x, y]                                      *)
(*   cv::Rect                  [x, y, width, height], integers             *)
(*   cv::KeyPoint              [pt]                                        *)
(*   cv::DMatch                [queryIdx, trainIdx], indices from 0        *)
(*   BoundingBox               [boxID, roi, lidarPoints, kptMatches]       *)
(*   DataFrame                 [boundingBoxes, lidarPoints, keypoints,     *)
(*                              kptMatches, bbMatches]                     *)
(* Keypoint coordinates are integers, so the conversion of a Point2f to    *)
(* the integer point that cv::Rect::contains takes changes nothing.        *)
(***************************************************************************)
Point(x, y) == [x |-> x, y |-> y]

Rect(x, y, width, height) == [x |-> x, y |-> y, width |-> width, height |-> height]

KeyPoint(x, y) == [pt |-> Point(x, y)]

DMatch(queryIdx, trainIdx) == [queryIdx |-> queryIdx, trainIdx |-> trainIdx]

BoundingBox(boxID, roi) ==
    [boxID |-> boxID, roi |-> roi, lidarPoints |-> <<>>, kptMatches |-> <<>>]

\* std::vector::at with an index counted from 0
At(vec, idx) == vec[idx + 1]

\* cv::norm(a - b)
norm(a, b) ==
    XSqrt(Num((a.x - b.x) * (a.x - b.x) + (a.y - b.y) * (a.y - b.y)))

\* conversion of the quotient num / den to int: truncation toward zero
Trunc(num, den) ==
    LET n == IF den < 0 THEN -num ELSE num
        d == IF den < 0 THEN -den ELSE den
    IN  IF n >= 0 THEN n \div d ELSE -((-n) \div d)

\* cv::Rect::contains: left and top edge inside, right and bottom edge outside
contains(rect, pt) ==
    /\ rect.x <= pt.x /\ pt.x < rect.x + rect.width
    /\ rect.y <= pt.y /\ pt.y < rect.y + rect.height

\* shrinkFactor = 0.10 as the fraction ShrinkNum / ShrinkDen
ShrinkNum == 1

ShrinkDen == 10

\* scaling of the width and the height alone, the corner left in place
shrinkSizeOnly(roi, num, den) ==
    Rect(roi.x, roi.y, Trunc(roi.width * (den - num), den),
         Trunc(roi.height * (den - num), den))

\* the shrunk rectangle for shrinkFactor = num / den: each field is a
\* floating-point expression assigned to an int
\*   x = roi.x + shrinkFactor * roi.width / 2.0
\*   width = roi.width * (1 - shrinkFactor)
shrinkBy(roi, num, den) ==
    Rect(Trunc(2 * den * roi.x + num * roi.width, 2 * den),
         Trunc(2 * den * roi.y + num * roi.height, 2 * den),
         Trunc(roi.width * (den - num), den),
         Trunc(roi.height * (den - num), den))

\* the shrunk rectangle with the factor both callers use
smallerBox(roi) == shrinkBy(roi, ShrinkNum, ShrinkDen)

(***************************************************************************)
(* computeTTCCamera (camFusion_Student.cpp:186-241).                       *)
(***************************************************************************)
minDist == 100

\* std::numeric_limits<double>::epsilon() = 2^-52
epsilon == XDiv(Num(1), XMul(Num(2^26), Num(2^26)))

\* the distance ratio pushed for the pair (it1, it2), as a list of 0 or 1
\* elements
distRatioOf(kptsPrev, kptsCurr, m1, m2) ==
    LET kpOuterCurr == At(kptsCurr, m1.trainIdx)
        kpOuterPrev == At(kptsPrev, m1.queryIdx)
        kpInnerCurr == At(kptsCurr, m2.trainIdx)
        kpInnerPrev == At(kptsPrev, m2.queryIdx)
        distCurr    == norm(kpOuterCurr.pt, kpInnerCurr.pt)
        distPrev    == norm(kpOuterPrev.pt, kpInnerPrev.pt)
    IN  IF XGt(distPrev, epsilon) /\ XGe(distCurr, Num(minDist))
        THEN <<XDiv(distCurr, distPrev)>>
        ELSE <<>>

\* the loops of lines 190-214 on a non-empty match list: it1 runs over
\* [begin, end - 1), it2 over [begin + 1, end)
RECURSIVE distRatiosFrom(_, _, _, _, _)
distRatiosFrom(kptsPrev, kptsCurr, kptMatches, i1, i2) ==
    IF i1 > Len(kptMatches) - 1 THEN <<>>
    ELSE IF i2 > Len(kptMatches)
         THEN distRatiosFrom(kptsPrev, kptsCurr, kptMatches, i1 + 1, 2)
         ELSE distRatioOf(kptsPrev, kptsCurr, kptMatches[i1], kptMatches[i2])
              \o distRatiosFrom(kptsPrev, kptsCurr, kptMatches, i1, i2 + 1)

\* std::sort of a vector of doubles
RECURSIVE sortInsert(_, _)
sortInsert(sorted, v) ==
    IF sorted = <<>> THEN <<v>>
    ELSE IF XLt(v, Head(sorted)) THEN <<v>> \o sorted
         ELSE <<Head(sorted)>> \o sortInsert(Tail(sorted), v)

RECURSIVE sort(_)
sort(vec) == IF vec = <<>> THEN <<>> ELSE sortInsert(sort(Tail(vec)), Head(vec))

\* lines 226-233
medianOf(distRatios) ==
    LET size == Len(distRatios)
    IN  IF size % 2 = 1
        THEN At(distRatios, size \div 2)
        ELSE XDiv(XAdd(At(distRatios, size \div 2), At(distRatios, (size - 1) \div 2)),
                  Num(2))

\* lines 216-240: the value assigned to TTC from the collected ratios
ttcFromRatios(distRatios, frameRate) ==
    IF Len(distRatios) = 0 THEN NaN
    ELSE LET medianDistRatio == medianOf(sort(distRatios))
             dT              == XDiv(Num(1), Num(frameRate))
         IN  XDiv(XNeg(dT), XSub(Num(1), medianDistRatio))

\* The outcomes of a call.  On an empty match list "end() - 1" is formed on
\* an empty vector and the first iteration reads through begin(): the
\* behaviour is undefined, and the build may fault, or go on with any
\* element values and so come back having written any value, or come back
\* through the empty-ratio exit.  On a non-empty list the call returns the
\* one value of lines 216-240.
UndefinedTTC == {NaN, PInf, NInf, Num(0), Num(-1), Num(1)}

computeTTCCamera(kptsPrev, kptsCurr, kptMatches, frameRate) ==
    IF Len(kptMatches) = 0
    THEN {[fault |-> TRUE, TTC |-> NaN]}
         \cup { [fault |-> FALSE, TTC |-> t] : t \in UndefinedTTC }
    ELSE {[fault |-> FALSE,
           TTC   |-> ttcFromRatios(distRatiosFrom(kptsPrev, kptsCurr, kptMatches, 1, 2),
                                   frameRate)]}

(***************************************************************************)
(* clusterLidarWithROI (camFusion_Student.cpp:15-62).  The calibration     *)
(* matrices are arguments of the function; a matrix is a sequence of rows. *)
(***************************************************************************)
RECURSIVE Dot(_, _, _)
Dot(row, v, j) == IF j > Len(row) THEN 0 ELSE row[j] * v[j] + Dot(row, v, j + 1)

MatVec(M, v) == [i \in 1..Len(M) |-> Dot(M[i], v, 1)]

\* lines 24-34: the pixel of a lidar point
project(P_rect_xx, R_rect_xx, RT, pt) ==
    LET X == <<pt.x, pt.y, pt.z, 1>>
        Y == MatVec(P_rect_xx, MatVec(R_rect_xx, MatVec(RT, X)))
    IN  Point(Trunc(Y[1], Y[3]), Trunc(Y[2], Y[3]))

\* lines 36-52: the positions of the boxes whose shrunk rectangle contains pt
enclosingBoxes(boundingBoxes, pt) ==
    { b \in 1..Len(boundingBoxes) : contains(smallerBox(boundingBoxes[b].roi), pt) }

\* the point appended to every enclosing box
addLidarPointToAll(boundingBoxes, lp, P_rect_xx, R_rect_xx, RT) ==
    LET enc == enclosingBoxes(boundingBoxes, project(P_rect_xx, R_rect_xx, RT, lp))
    IN  [b \in 1..Len(boundingBoxes) |->
            IF b \in enc
            THEN [boundingBoxes[b] EXCEPT !.lidarPoints = Append(@, lp)]
            ELSE boundingBoxes[b]]

\* lines 54-59: one lidar point
addLidarPoint(boundingBoxes, lp, P_rect_xx, R_rect_xx, RT) ==
    LET enc == enclosingBoxes(boundingBoxes, project(P_rect_xx, R_rect_xx, RT, lp))
    IN  IF Cardinality(enc) = 1
        THEN [b \in 1..Len(boundingBoxes) |->
                IF b \in enc
                THEN [boundingBoxes[b] EXCEPT !.lidarPoints = Append(@, lp)]
                ELSE boundingBoxes[b]]
        ELSE boundingBoxes

RECURSIVE clusterLidarFrom(_, _, _, _, _, _)
clusterLidarFrom(boundingBoxes, lidarPoints, i, P_rect_xx, R_rect_xx, RT) ==
    IF i > Len(lidarPoints) THEN boundingBoxes
    ELSE clusterLidarFrom(addLidarPoint(boundingBoxes, lidarPoints[i], P_rect_xx, R_rect_xx, RT),
                          lidarPoints, i + 1, P_rect_xx, R_rect_xx, RT)

clusterLidarWithROI(boundingBoxes, lidarPoints, P_rect_xx, R_rect_xx, RT) ==
    clusterLidarFrom(boundingBoxes, lidarPoints, 1, P_rect_xx, R_rect_xx, RT)

(***************************************************************************)
(* clusterKptMatchesWithROI (camFusion_Student.cpp:138-183).               *)
(***************************************************************************)
distThreshold == Frac(17, 10)

matchDist(kptsPrev, kptsCurr, m) ==
    norm(At(kptsCurr, m.trainIdx).pt, At(kptsPrev, m.queryIdx).pt)

RECURSIVE distSumFrom(_, _, _, _, _)
\* sq = FALSE: sum of the match distances; sq = TRUE: sum of their squares
distSumFrom(kptsPrev, kptsCurr, kptMatches, i, sq) ==
    IF i > Len(kptMatches) THEN Num(0)
    ELSE LET dist == matchDist(kptsPrev, kptsCurr, kptMatches[i])
         IN  XAdd(IF sq THEN XSq(dist) ELSE dist,
                  distSumFrom(kptsPrev, kptsCurr, kptMatches, i + 1, sq))

\* lines 168-176: whether one match is appended to the box
keepMatch(roi, kptsPrev, kptsCurr, m, distMean, distStd) ==
    /\ contains(smallerBox(roi), At(kptsCurr, m.trainIdx).pt)
    /\ contains(smallerBox(roi), At(kptsPrev, m.queryIdx).pt)
    /\ LET dist == matchDist(kptsPrev, kptsCurr, m)
       IN  /\ XGt(dist, XSub(distMean, XMul(distThreshold, distStd)))
           /\ XLt(dist, XAdd(distMean, XMul(distThreshold, distStd)))

RECURSIVE keptMatchesFrom(_, _, _, _, _, _, _)
keptMatchesFrom(roi, kptsPrev, kptsCurr, kptMatches, i, distMean, distStd) ==
    IF i > Len(kptMatches) THEN <<>>
    ELSE (IF keepMatch(roi, kptsPrev, kptsCurr, kptMatches[i], distMean, distStd)
          THEN <<kptMatches[i]>> ELSE <<>>)
         \o keptMatchesFrom(roi, kptsPrev, kptsCurr, kptMatches, i + 1, distMean, distStd)

\* the box on return: the kept matches are appended to boundingBox.kptMatches
clusterKptMatchesWithROI(boundingBox, kptsPrev, kptsCurr, kptMatches) ==
    LET size     == Num(Len(kptMatches))
        distMean == XDiv(distSumFrom(kptsPrev, kptsCurr, kptMatches, 1, FALSE), size)
        distStd  == XSqrt(XSub(XDiv(distSumFrom(kptsPrev, kptsCurr, kptMatches, 1, TRUE), size),
                               XSq(distMean)))
    IN  [boundingBox EXCEPT !.kptMatches =
            @ \o keptMatchesFrom(boundingBox.roi, kptsPrev, kptsCurr, kptMatches, 1,
                                 distMean, distStd)]

(***************************************************************************)
(* matchBoundingBoxes (camFusion_Student.cpp:360-384).                     *)
(***************************************************************************)
Max2(a, b) == IF a >= b THEN a ELSE b

Min2(a, b) == IF a <= b THEN a ELSE b

area(rect) == rect.width * rect.height

empty(rect) == rect.width <= 0 \/ rect.height <= 0

\* cv::Rect operator&: the intersection, Rect() when there is none
RectAnd(a, b) ==
    LET x1 == Max2(a.x, b.x)
        y1 == Max2(a.y, b.y)
        w  == Min2(a.x + a.width, b.x + b.width) - x1
        h  == Min2(a.y + a.height, b.y + b.height) - y1
    IN  IF w <= 0 \/ h <= 0 THEN Rect(0, 0, 0, 0) ELSE Rect(x1, y1, w, h)

\* cv::Rect operator|: the smallest rectangle that holds both
RectOr(a, b) ==
    IF empty(a) THEN b
    ELSE IF empty(b) THEN a
    ELSE LET x1 == Min2(a.x, b.x)
             y1 == Min2(a.y, b.y)
         IN  Rect(x1, y1,
                  Max2(a.x + a.width, b.x + b.width) - x1,
                  Max2(a.y + a.height, b.y + b.height) - y1)

\* IOURatio of line 370
IOURatio(a, b) == XDiv(Num(area(RectAnd(a, b))), Num(area(RectOr(a, b))))

IOUThreshold == Frac(7, 10)

\* maxIOURatio = -1e9 at the start of each previous box
maxIOURatioInit == Num(-(10^9))

\* the inner loop with ">=" in place of ">": the last maximum wins
RECURSIVE bestCurrFromLast(_, _, _, _, _)
bestCurrFromLast(prevRoi, currBoxes, i2, maxIOURatio, back) ==
    IF i2 > Len(currBoxes) THEN [maxIOURatio |-> maxIOURatio, back |-> back]
    ELSE LET ratio == IOURatio(prevRoi, currBoxes[i2].roi)
         IN  IF XGe(ratio, maxIOURatio)
             THEN bestCurrFromLast(prevRoi, currBoxes, i2 + 1, ratio, i2)
             ELSE bestCurrFromLast(prevRoi, currBoxes, i2 + 1, maxIOURatio, back)

\* the inner loop of lines 367-376 for one previous box: [maxIOURatio, back],
\* back being the position of the current box pushed last (0: none)
RECURSIVE bestCurrFrom(_, _, _, _, _)
bestCurrFrom(prevRoi, currBoxes, i2, maxIOURatio, back) ==
    IF i2 > Len(currBoxes) THEN [maxIOURatio |-> maxIOURatio, back |-> back]
    ELSE LET ratio == IOURatio(prevRoi, currBoxes[i2].roi)
         IN  IF XGt(ratio, maxIOURatio)
             THEN bestCurrFrom(prevRoi, currBoxes, i2 + 1, ratio, i2)
             ELSE bestCurrFrom(prevRoi, currBoxes, i2 + 1, maxIOURatio, back)

\* std::map::insert: a key already present keeps its value; the map is kept
\* as the list of its <<previous boxID, current boxID>> entries in key order
RECURSIVE mapInsert(_, _)
mapInsert(m, kv) ==
    IF m = <<>> THEN <<kv>>
    ELSE IF Head(m)[1] = kv[1] THEN m
    ELSE IF kv[1] < Head(m)[1] THEN <<kv>> \o m
    ELSE <<Head(m)>> \o mapInsert(Tail(m), kv)

RECURSIVE matchBoxesFrom(_, _, _, _)
matchBoxesFrom(prevBoxes, currBoxes, i1, bbBestMatches) ==
    IF i1 > Len(prevBoxes) THEN bbBestMatches
    ELSE LET best == bestCurrFrom(prevBoxes[i1].roi, currBoxes, 1, maxIOURatioInit, 0)
         IN  matchBoxesFrom(prevBoxes, currBoxes, i1 + 1,
                 IF XGt(best.maxIOURatio, IOUThreshold)
                 THEN mapInsert(bbBestMatches,
                                <<prevBoxes[i1].boxID, currBoxes[best.back].boxID>>)
                 ELSE bbBestMatches)

matchBoundingBoxes(prevBoxes, currBoxes) == matchBoxesFrom(prevBoxes, currBoxes, 1, <<>>)

(***************************************************************************)
(* State.                                                                  *)
(*   vehicleVel, vehicleAcc  the kinematic state of the run (main, 113-114)*)
(*   frameRate               sensorFrameRate (main, 72)                    *)
(*   TTCcalModel             the model selector of the run (main, 88)      *)
(*   ttcLidar                the caller's TTC variable after the last      *)
(*                           computeTTCLidar call                          *)
(*   ttcAssigned             whether that call executed a "TTC = ..."      *)
(*   lidarCall               the last call's selector, entry state and its *)
(*                           two local closest distances                   *)
(*   lidarPointsPrev/Curr    the two point lists of the last call          *)
(*   nCalls                  number of computeTTCLidar calls so far        *)
(*   ttcCamera               the caller's TTC variable after the last      *)
(*                           computeTTCCamera call                         *)
(*   cameraCall              the arguments of that call                    *)
(*   fault                   the program was ended by a fault              *)
(*   dataBuffer              the ring buffer of DataFrames (main, 73)      *)
(*   pairIdx                 position of the loop over bbMatches           *)
(*                           (main, 344); 0 outside the loop               *)
(*   TTCresult               the two result lists (main, 382-383)          *)
(*   imgIndex                number of images loaded so far                *)
(*   pairsDone               number of bbMatches entries the loop of       *)
(*                           main, 344 has gone through                    *)
(*   callLog                 the calls made so far for the current image,  *)
(*                           in the order in which they were made          *)
(***************************************************************************)
VARIABLES vehicleVel, vehicleAcc, frameRate, TTCcalModel, ttcLidar, ttcAssigned,
          lidarCall, lidarPointsPrev, lidarPointsCurr, nCalls,
          ttcCamera, cameraCall, fault,
          dataBuffer, pairIdx, TTCresult, imgIndex, pairsDone, callLog

lidarVars == <<vehicleVel, vehicleAcc, ttcLidar, ttcAssigned, lidarCall,
               lidarPointsPrev, lidarPointsCurr, nCalls>>

cameraVars == <<ttcCamera, cameraCall>>

driverVars == <<dataBuffer, pairIdx, TTCresult, imgIndex, pairsDone, callLog>>

vars == <<vehicleVel, vehicleAcc, frameRate, TTCcalModel, ttcLidar, ttcAssigned,
          lidarCall, lidarPointsPrev, lidarPointsCurr, nCalls,
          ttcCamera, cameraCall, fault,
          dataBuffer, pairIdx, TTCresult, imgIndex, pairsDone, callLog>>

\* The value of "double ttcLidar;" (main, 369) when the call returns without
\* assigning it is indeterminate: what the stack slot held (the previous
\* result), or any other bit pattern.
Indeterminate == [k |-> "indeterminate"]

IndeterminateValues(old) == {old, NaN, Num(0), Num(-1)}

NoCall == [model |-> -1]

\* the caller's variables after computeTTCLidar returned r
LidarReturn(r, prev, curr) ==
    /\ vehicleVel' = r.vehicleVel
    /\ vehicleAcc' = r.vehicleAcc
    /\ ttcAssigned' = (r.TTC # Indeterminate)
    /\ ttcLidar' \in (IF r.TTC = Indeterminate
                      THEN IndeterminateValues(ttcLidar) ELSE {r.TTC})
    /\ lidarCall' = [ model |-> TTCcalModel, velIn |-> vehicleVel, accIn |-> vehicleAcc,
                      minXPrev |-> r.minXPrev, minXCurr |-> r.minXCurr ]
    /\ lidarPointsPrev' = prev
    /\ lidarPointsCurr' = curr
    /\ nCalls' = nCalls + 1

\* the state at main, 116, before the first image is loaded
InitRun ==
    /\ vehicleVel = NotInitialized
    /\ vehicleAcc = NotInitialized
    /\ TTCcalModel \in {0, 1}
    /\ ttcLidar = NaN
    /\ ttcAssigned = FALSE
    /\ lidarCall = NoCall
    /\ lidarPointsPrev = <<>>
    /\ lidarPointsCurr = <<>>
    /\ nCalls = 0
    /\ ttcCamera = NaN
    /\ cameraCall = NoCall
    /\ fault = FALSE
    /\ dataBuffer = <<>>
    /\ pairIdx = 0
    /\ TTCresult = [lidarBasedTTC |-> <<>>, cameraBasedTTC |-> <<>>]
    /\ imgIndex = 0
    /\ pairsDone = 0
    /\ callLog = <<>>

\* the start of the specifications of one function: the state before the
\* first image, at either frame rate
InitCall ==
    /\ InitRun
    /\ frameRate \in { sensorFrameRate(w) : w \in ImgStepWidths }

(***************************************************************************)
(* SpecLidar: a run of up to MaxCalls computeTTCLidar calls on one         *)
(* kinematic state, each with its own point lists; the model selector is   *)
(* fixed for the run, as in main.                                          *)
(***************************************************************************)
LidarCall ==
    /\ nCalls < MaxCalls
    /\ \E prev \in KinClouds, curr \in KinClouds :
         LidarReturn(computeTTCLidar(prev, curr, frameRate, Indeterminate,
                                     vehicleVel, vehicleAcc, TTCcalModel),
                     <<>>, <<>>)
    /\ UNCHANGED <<frameRate, TTCcalModel, cameraVars, fault, driverVars>>

SpecLidar == InitCall /\ [][LidarCall]_vars

(***************************************************************************)
(* SpecFrame: one computeTTCLidar call on two arbitrary point lists, from  *)
(* the initial kinematic state.                                            *)
(***************************************************************************)
FrameCall ==
    /\ nCalls = 0
    /\ \E prev \in FrameClouds, curr \in FrameClouds :
         LidarReturn(computeTTCLidar(prev, curr, frameRate, Indeterminate,
                                     vehicleVel, vehicleAcc, TTCcalModel),
                     prev, curr)
    /\ UNCHANGED <<frameRate, TTCcalModel, cameraVars, fault, driverVars>>

SpecFrame == InitCall /\ [][FrameCall]_vars

(***************************************************************************)
(* SpecCamera: one computeTTCCamera call on the keypoints of two images    *)
(* and a list of matches between them (the function keeps no state).       *)
(***************************************************************************)
MaxMatches == 3

NumKpts == 3

\* NumKpts keypoints of one image: on one image row, evenly spaced from
\* column 120
KptRow(step) == [i \in 1..NumKpts |-> KeyPoint(120 + step * (i - 1), 50)]

\* columns 120, 180, 240, ... and 120, 200, 280, ...
KptRows == { KptRow(60), KptRow(80) }

AllMatches == { DMatch(q, t) : q \in 0..(NumKpts - 1), t \in 0..(NumKpts - 1) }

RECURSIVE MatchLists(_)
MatchLists(n) ==
    IF n = 0 THEN {<<>>}
    ELSE LET shorter == MatchLists(n - 1)
         IN  shorter \cup { Append(l, m) : l \in { k \in shorter : Len(k) = n - 1 },
                                            m \in AllMatches }

CameraReturn(out, kptsPrev, kptsCurr, kptMatches) ==
    /\ fault' = out.fault
    /\ ttcCamera' = out.TTC
    /\ cameraCall' = [kptsPrev |-> kptsPrev, kptsCurr |-> kptsCurr,
                      kptMatches |-> kptMatches]

CameraCall ==
    /\ cameraCall = NoCall
    /\ \E kptsPrev \in KptRows, kptsCurr \in KptRows, kptMatches \in MatchLists(MaxMatches) :
         \E out \in computeTTCCamera(kptsPrev, kptsCurr, kptMatches, frameRate) :
            CameraReturn(out, kptsPrev, kptsCurr, kptMatches)
    /\ UNCHANGED <<frameRate, TTCcalModel, lidarVars, driverVars>>

SpecCamera == InitCall /\ [][CameraCall]_vars

(***************************************************************************)
(* Calibration.  The matrices of main, 53-70 are a pinhole projection      *)
(* (focal length and principal point in P_rect_00), a rectifying rotation  *)
(* close to the identity and the lidar-to-camera change of axes            *)
(* (camera X = -lidar y, camera Y = -lidar z, camera Z = lidar x).  The    *)
(* model keeps that shape with integer entries.                            *)
(***************************************************************************)
P_rect_00 == << <<100, 0, 200, 0>>, <<0, 100, 50, 0>>, <<0, 0, 1, 0>> >>

R_rect_00 == << <<1, 0, 0, 0>>, <<0, 1, 0, 0>>, <<0, 0, 1, 0>>, <<0, 0, 0, 1>> >>

RT == << <<0, -1, 0, 0>>, <<0, 0, -1, 0>>, <<1, 0, 0, 0>>, <<0, 0, 0, 1>> >>

DataFrame(boundingBoxes, lidarPoints, keypoints, kptMatches, bbMatches) ==
    [ boundingBoxes |-> boundingBoxes, lidarPoints |-> lidarPoints,
      keypoints |-> keypoints, kptMatches |-> kptMatches, bbMatches |-> bbMatches ]

\* the boxes detectObjects delivers for a list of rectangles: boxID counts
\* from 0
Detected(rois) == [i \in 1..Len(rois) |-> BoundingBox(i - 1, rois[i])]

(***************************************************************************)
(* SpecCluster: one clusterLidarWithROI call on the detected boxes and the *)
(* cropped lidar points of one image.                                      *)
(***************************************************************************)
MaxBoxes == 3

MaxClusterPts == 2

\* shrunk: columns [110, 290), [210, 390), [155, 245); rows [5, 95), [5, 95),
\* [23, 77)
ClusterRois == << Rect(100, 0, 200, 100), Rect(200, 0, 200, 100), Rect(150, 20, 100, 60) >>

\* pixels (150,50) (175,50) (250,50) (300,50) (100,50) (225,50) (150,0)
\* (110,50) (290,50)
ClusterPoints ==
    << LidarPointAt(2, 1, 0, 1),  LidarPointAt(4, 1, 0, 1),  LidarPointAt(2, -1, 0, 1),
       LidarPointAt(2, -2, 0, 1), LidarPointAt(2, 2, 0, 1),  LidarPointAt(4, -1, 0, 1),
       LidarPointAt(2, 1, 1, 1),  LidarPointAt(10, 9, 0, 1), LidarPointAt(10, -9, 0, 1) >>

ClusterBoxLists ==
    UNION { { Detected([i \in 1..n |-> ClusterRois[f[i]]]) :
                f \in [1..n -> 1..Len(ClusterRois)] } : n \in 0..MaxBoxes }

ClusterCall ==
    /\ dataBuffer = <<>>
    /\ \E boundingBoxes \in ClusterBoxLists, lidarPoints \in SubLists(ClusterPoints, MaxClusterPts) :
         dataBuffer' = << DataFrame(clusterLidarWithROI(boundingBoxes, lidarPoints,
                                                        P_rect_00, R_rect_00, RT),
                                    lidarPoints, <<>>, <<>>, <<>>) >>
    /\ imgIndex' = imgIndex + 1
    /\ UNCHANGED <<frameRate, TTCcalModel, lidarVars, cameraVars, fault,
                   pairIdx, TTCresult, pairsDone, callLog>>

SpecCluster == InitCall /\ [][ClusterCall]_vars

(***************************************************************************)
(* Spec: the loop over the images of main, 116-419.  ProcessFrame is the   *)
(* part of the loop body before the loop over the matched boxes (load,     *)
(* detect, crop, cluster, keypoints, matches, matchBoundingBoxes);         *)
(* TTCPair is one iteration of the loop over bbMatches.  What the object   *)
(* detector, the lidar file, the keypoint detector and the descriptor      *)
(* matcher deliver for an image are inputs.                                *)
(***************************************************************************)
MaxFrames == 2

dataBufferSize == 2

DriverRois == << Rect(100, 0, 200, 100), Rect(200, 0, 200, 100) >>

DriverBoxLists == { Detected(SubSeq(DriverRois, 1, n)) : n \in 0..Len(DriverRois) }

DriverMatches ==
    { <<>>, <<DMatch(0, 0)>>, <<DMatch(0, 0), DMatch(1, 1), DMatch(2, 2)>> }

InitDriver ==
    /\ InitRun
    /\ frameRate = sensorFrameRate(1)

\* main, 118-342
ProcessFrame ==
    /\ ~fault
    /\ pairIdx = 0
    /\ imgIndex < MaxFrames
    /\ \E detected \in DriverBoxLists, lidarPoints \in DriverClouds,
          keypoints \in KptRows, matches \in DriverMatches :
         LET buffer        == IF Len(dataBuffer) >= dataBufferSize
                              THEN Tail(dataBuffer) ELSE dataBuffer
             boundingBoxes == clusterLidarWithROI(detected, lidarPoints,
                                                  P_rect_00, R_rect_00, RT)
             frame ==
                 IF Len(buffer) + 1 > 1
                 THEN DataFrame(boundingBoxes, lidarPoints, keypoints, matches,
                                matchBoundingBoxes(buffer[Len(buffer)].boundingBoxes,
                                                   boundingBoxes))
                 ELSE DataFrame(boundingBoxes, lidarPoints, keypoints, <<>>, <<>>)
         IN  /\ dataBuffer' = Append(buffer, frame)
             /\ pairIdx' = IF frame.bbMatches = <<>> THEN 0 ELSE 1
             /\ callLog' = IF Len(buffer) + 1 > 1
                           THEN << [fn |-> "clusterLidarWithROI", pair |-> 0],
                                   [fn |-> "matchBoundingBoxes", pair |-> 0] >>
                           ELSE << [fn |-> "clusterLidarWithROI", pair |-> 0] >>
    /\ imgIndex' = imgIndex + 1
    /\ UNCHANGED <<frameRate, TTCcalModel, lidarVars, cameraVars, fault,
                   TTCresult, pairsDone>>

\* the position of the last box of the list with the given boxID (the loops
\* of main, 348 and 356 do not stop at the first hit)
boxWithID(boundingBoxes, boxID) ==
    CHOOSE i \in 1..Len(boundingBoxes) :
        /\ boundingBoxes[i].boxID = boxID
        /\ \A j \in (i + 1)..Len(boundingBoxes) : boundingBoxes[j].boxID # boxID

\* the estimators in place of each other
pairCallsCameraFirst(pair) ==
    << [fn |-> "computeTTCCamera", pair |-> pair],
       [fn |-> "clusterKptMatchesWithROI", pair |-> pair],
       [fn |-> "computeTTCLidar", pair |-> pair] >>

\* main, 371, 378 and 379: the calls made for the pair at position pair of
\* bbMatches, in the order of the statements
pairCalls(pair) ==
    << [fn |-> "computeTTCLidar", pair |-> pair],
       [fn |-> "clusterKptMatchesWithROI", pair |-> pair],
       [fn |-> "computeTTCCamera", pair |-> pair] >>

\* main, 369-383: both estimates for one pair of boxes, and their records
Estimate(prevF, currF, currPos, prevBB, currBB, clustered) ==
    /\ callLog' = callLog \o pairCalls(pairIdx)
    /\ LidarReturn(computeTTCLidar(prevBB.lidarPoints, currBB.lidarPoints,
                                   frameRate, Indeterminate,
                                   vehicleVel, vehicleAcc, TTCcalModel),
                   prevBB.lidarPoints, currBB.lidarPoints)
    /\ dataBuffer' =
         [dataBuffer EXCEPT ![Len(dataBuffer)].boundingBoxes[currPos] = clustered]
    /\ \E out \in computeTTCCamera(prevF.keypoints, currF.keypoints,
                                   clustered.kptMatches, frameRate) :
         /\ CameraReturn(out, prevF.keypoints, currF.keypoints, clustered.kptMatches)
         /\ TTCresult' =
              IF out.fault THEN TTCresult
              ELSE [ lidarBasedTTC  |-> Append(TTCresult.lidarBasedTTC, ttcLidar'),
                     cameraBasedTTC |-> Append(TTCresult.cameraBasedTTC, out.TTC) ]

\* main, 346-384: the two boxes of the pair, and the estimates if both hold
\* lidar points
PairOf(prevF, currF, currPos, prevPos) ==
    IF /\ Len(currF.boundingBoxes[currPos].lidarPoints) > 0
       /\ Len(prevF.boundingBoxes[prevPos].lidarPoints) > 0
    THEN Estimate(prevF, currF, currPos,
                  prevF.boundingBoxes[prevPos], currF.boundingBoxes[currPos],
                  clusterKptMatchesWithROI(currF.boundingBoxes[currPos], prevF.keypoints,
                                           currF.keypoints, currF.kptMatches))
    ELSE UNCHANGED <<lidarVars, cameraVars, fault, dataBuffer, TTCresult, callLog>>

\* the pair of frames at the end of the ring buffer and the current match
PairAt(prevF, currF, it1) ==
    PairOf(prevF, currF, boxWithID(currF.boundingBoxes, it1[2]),
           boxWithID(prevF.boundingBoxes, it1[1]))

\* main, 344-415: one matched pair
TTCPair ==
    /\ ~fault
    /\ pairIdx >= 1
    /\ PairAt(dataBuffer[Len(dataBuffer) - 1], dataBuffer[Len(dataBuffer)],
              dataBuffer[Len(dataBuffer)].bbMatches[pairIdx])
    /\ pairIdx' = IF pairIdx < Len(dataBuffer[Len(dataBuffer)].bbMatches)
                  THEN pairIdx + 1 ELSE 0
    /\ pairsDone' = pairsDone + 1
    /\ UNCHANGED <<frameRate, TTCcalModel, imgIndex>>

Next == ProcessFrame \/ TTCPair

Init == InitDriver

Spec == Init /\ [][Next]_vars

(***************************************************************************)
(* SpecMatch: one matchBoundingBoxes call on the detected boxes of two      *)
(* successive images; the ring buffer then holds the two frames, the       *)
(* current one with its bbMatches (main, 304 and 336).                     *)
(***************************************************************************)
MaxMatchBoxes == 2

\* a box, the box one half-width to the right, a box well inside the first,
\* and the left 140 columns of the first
MatchRois ==
    << Rect(100, 0, 200, 100), Rect(200, 0, 200, 100), Rect(150, 20, 100, 60),
       Rect(100, 0, 140, 100) >>

MatchBoxLists ==
    UNION { { Detected([i \in 1..n |-> MatchRois[f[i]]]) :
                f \in [1..n -> 1..Len(MatchRois)] } : n \in 0..MaxMatchBoxes }

MatchCall ==
    /\ dataBuffer = <<>>
    /\ \E prevBoxes \in MatchBoxLists, currBoxes \in MatchBoxLists :
         dataBuffer' = << DataFrame(prevBoxes, <<>>, <<>>, <<>>, <<>>),
                          DataFrame(currBoxes, <<>>, <<>>, <<>>,
                                    matchBoundingBoxes(prevBoxes, currBoxes)) >>
    /\ imgIndex' = imgIndex + 2
    /\ UNCHANGED <<frameRate, TTCcalModel, lidarVars, cameraVars, fault,
                   pairIdx, TTCresult, pairsDone, callLog>>

SpecMatch == InitDriver /\ [][MatchCall]_vars

(***************************************************************************)
(* SpecShrink: the shrunk rectangle of lines 40-44 / 159-163 for one       *)
(* integer rectangle and one shrink factor.  The buffer then holds the     *)
(* rectangle, the factor as <<numerator, denominator>> and the result.     *)
(***************************************************************************)
MaxSide == 20

ShrinkCall ==
    /\ dataBuffer = <<>>
    /\ \E x \in {-5, 0, 7}, y \in {-5, 0, 7}, width \in 0..MaxSide, height \in 0..MaxSide,
          shrinkFactor \in { <<0, 1>>, <<ShrinkNum, ShrinkDen>>, <<1, 4>>, <<1, 2>> } :
         dataBuffer' = << [ roi          |-> Rect(x, y, width, height),
                            shrinkFactor |-> shrinkFactor,
                            smallerBox   |-> shrinkBy(Rect(x, y, width, height),
                                                      shrinkFactor[1], shrinkFactor[2]) ] >>
    /\ UNCHANGED <<frameRate, TTCcalModel, lidarVars, cameraVars, fault,
                   pairIdx, TTCresult, imgIndex, pairsDone, callLog>>

SpecShrink == InitDriver /\ [][ShrinkCall]_vars

(***************************************************************************)
(* SpecPairs: one computeTTCCamera call on two images of NumPairKpts       *)
(* keypoints each (on one image row, evenly spaced from column 120) and a  *)
(* match list that holds one match for every keypoint of the previous      *)
(* image, in the order of the keypoints, as the descriptor matcher         *)
(* delivers them.                                                          *)
(***************************************************************************)
NumPairKpts == 4

PairsCall ==
    /\ cameraCall = NoCall
    /\ \E stepPrev \in {60, 80}, stepCurr \in {60, 80},
          trainIdx \in [1..NumPairKpts -> 0..(NumPairKpts - 1)] :
         LET kptsPrev   == [i \in 1..NumPairKpts |-> KeyPoint(120 + stepPrev * (i - 1), 50)]
             kptsCurr   == [i \in 1..NumPairKpts |-> KeyPoint(120 + stepCurr * (i - 1), 50)]
             kptMatches == [i \in 1..NumPairKpts |-> DMatch(i - 1, trainIdx[i])]
         IN  \E out \in computeTTCCamera(kptsPrev, kptsCurr, kptMatches, frameRate) :
                CameraReturn(out, kptsPrev, kptsCurr, kptMatches)
    /\ UNCHANGED <<frameRate, TTCcalModel, lidarVars, driverVars>>

SpecPairs == InitDriver /\ [][PairsCall]_vars

(***************************************************************************)
(* SpecSelector: a run of computeTTCLidar calls on one kinematic state in  *)
(* which the caller may pass the other model selector from one call to the *)
(* next (TTCcalModel is an argument of every call).                        *)
(***************************************************************************)
SpecSelector ==
    InitCall /\ [][\/ LidarCall
                   \/ /\ nCalls < MaxCalls
                      /\ TTCcalModel' = 1 - TTCcalModel
                      /\ UNCHANGED <<frameRate, lidarVars, cameraVars, fault, driverVars>>]_vars

(***************************************************************************)
(* SpecOverlap: the loop over the matched boxes (main, 344-415) for two    *)
(* successive images whose detections overlap.  OverlapFrames is the loop  *)
(* body of main up to matchBoundingBoxes for both images; the rectangles   *)
(* are 200 x 100 at columns 100, 150 and 125: the third scores 175/225     *)
(* against each of the other two, which score 150/250 against each other.  *)
(* Of the lidar points drawn, the first projects to column 150, inside the *)
(* shrunk rectangles at 100 and 125 only, the other to column 300, inside  *)
(* those at 150 and 125 only.                                              *)
(***************************************************************************)
OverlapFrames ==
    /\ dataBuffer = <<>>
    /\ \E prevRois, currRois \in { << Rect(100, 0, 200, 100) >>,
                                   << Rect(100, 0, 200, 100), Rect(150, 0, 200, 100) >>,
                                   << Rect(125, 0, 200, 100) >> },
          lidarPrev, lidarCurr \in SubLists(<< DriverPoints[1], DriverPoints[4] >>, MaxDriverPts),
          kptsPrev \in KptRows, kptsCurr \in KptRows, matches \in DriverMatches :
         LET prevBoxes == clusterLidarWithROI(Detected(prevRois), lidarPrev,
                                              P_rect_00, R_rect_00, RT)
             currBoxes == clusterLidarWithROI(Detected(currRois), lidarCurr,
                                              P_rect_00, R_rect_00, RT)
             frame     == DataFrame(currBoxes, lidarCurr, kptsCurr, matches,
                                    matchBoundingBoxes(prevBoxes, currBoxes))
         IN  /\ dataBuffer' = << DataFrame(prevBoxes, lidarPrev, kptsPrev, <<>>, <<>>),
                                 frame >>
             /\ pairIdx' = IF frame.bbMatches = <<>> THEN 0 ELSE 1
    /\ callLog' = << [fn |-> "clusterLidarWithROI", pair |-> 0],
                     [fn |-> "matchBoundingBoxes", pair |-> 0] >>
    /\ imgIndex' = imgIndex + 2
    /\ UNCHANGED <<frameRate, TTCcalModel, lidarVars, cameraVars, fault,
                   TTCresult, pairsDone>>

SpecOverlap == InitDriver /\ [][OverlapFrames \/ TTCPair]_vars

(***************************************************************************)
(* Properties of computeTTCLidar.                                          *)
(***************************************************************************)
called == nCalls > 0

\* a velocity or acceleration other than the "not initialized" value
known(x) == XNe(x, NotInitialized)

velKnown == known(vehicleVel)

accKnown == known(vehicleAcc)

\* the same double: both NaN, or equal
SameValue(a, b) == (IsNaN(a) /\ IsNaN(b)) \/ XEq(a, b)

PositiveFinite(x) == IsFin(x) /\ FinSign(x) > 0

callDT == XDiv(Num(1), Num(frameRate))

callCV == constantVelocityTTC(lidarCall.minXPrev, lidarCall.minXCurr, callDT)


\* Survivors of the band test of one frame, restated over the integers:
\* |x - mean| < 2*std  iff  (n*x - Sx)^2 < 4*(n*Sxx - Sx^2), and
\* |r - mean| < 1.6*std iff 25*(n*r - Sr)^2 < 64*(n*Srr - Sr^2).
Survives(pts, i) ==
    LET n   == Len(pts)
        Sx  == SumOf(pts, "x", 1)
        Sxx == SumOf(pts, "xx", 1)
        Sr  == SumOf(pts, "r", 1)
        Srr == SumOf(pts, "rr", 1)
    IN  /\ (n * pts[i].x - Sx) * (n * pts[i].x - Sx) < 4 * (n * Sxx - Sx * Sx)
        /\ 25 * (n * pts[i].r - Sr) * (n * pts[i].r - Sr) < 64 * (n * Srr - Sr * Sr)

SurvivorXs(pts) == { pts[i].x : i \in { j \in 1..Len(pts) : Survives(pts, j) } }

MinOf(S) == CHOOSE x \in S : \A y \in S : x <= y

\* C5: when the closest distances of the two frames are equal (both frames
\* have points that pass the band test and the minimal x among them is the
\* same), the call delivers the unavailable marker (NaN assigned by the
\* call), not an infinite value.
C5_ZeroMotionUnavailable ==
    (called /\ SurvivorXs(lidarPointsPrev) # {} /\ SurvivorXs(lidarPointsCurr) # {}
        /\ MinOf(SurvivorXs(lidarPointsPrev)) = MinOf(SurvivorXs(lidarPointsCurr)))
        => (ttcAssigned /\ IsNaN(ttcLidar))

\* C6: when no point of the previous list or no point of the current list
\* passes the band test, the TTC is the unavailable marker and the
\* kinematic state is left as it was.
C6_NoSurvivorUnavailable ==
    (called /\ Len(lidarPointsPrev) > 0 /\ Len(lidarPointsCurr) > 0
        /\ (SurvivorXs(lidarPointsPrev) = {} \/ SurvivorXs(lidarPointsCurr) = {}))
        => /\ ttcAssigned /\ IsNaN(ttcLidar)
           /\ vehicleVel = lidarCall.velIn
           /\ vehicleAcc = lidarCall.accIn

\* C8: with the constant-velocity selector, when both frames have points
\* that pass the band test (x strictly inside mean +/- 2*std and intensity
\* strictly inside mean +/- 1.6*std of the frame), the TTC is
\* minXCurr*dT/(minXPrev - minXCurr) with dT = 1/frameRate, minXPrev and
\* minXCurr being the minimal x among each frame's own survivors.
C8_ConstantVelocityTTC ==
    (called /\ lidarCall.model = 0
        /\ SurvivorXs(lidarPointsPrev) # {} /\ SurvivorXs(lidarPointsCurr) # {})
    => LET mp == MinOf(SurvivorXs(lidarPointsPrev))
           mc == MinOf(SurvivorXs(lidarPointsCurr))
       IN  /\ ttcAssigned
           /\ SameValue(ttcLidar,
                        XDiv(XMul(Num(mc), XDiv(Num(1), Num(frameRate))), Num(mp - mc)))

\* a constant-velocity call in which the band test drops the closest point
\* of the previous frame, and the object approaches
C8_Witness ==
    /\ called /\ lidarCall.model = 0
    /\ SurvivorXs(lidarPointsPrev) # {} /\ SurvivorXs(lidarPointsCurr) # {}
    /\ \E i \in 1..Len(lidarPointsPrev) :
         lidarPointsPrev[i].x < MinOf(SurvivorXs(lidarPointsPrev))
    /\ MinOf(SurvivorXs(lidarPointsPrev)) = 3
    /\ MinOf(SurvivorXs(lidarPointsCurr)) = 2
    /\ frameRate = 10
    /\ XEq(ttcLidar, Frac(2, 10))

\* C2: over the calls of one run the kinematic state only moves forward:
\* a velocity that is known is known after every later call, and an
\* acceleration that is known is known after every later call.
C2_StateNeverRegresses ==
    [][/\ known(vehicleVel) => known(vehicleVel')
       /\ known(vehicleAcc) => known(vehicleAcc')]_vars

\* coefficients of t^2 + b*t + c = 0 for the last call, from the velocity the
\* call was entered with and the acceleration it used
callB == XDiv(lidarCall.velIn, XMul(Frac(1, 2), vehicleAcc))

callC == XDiv(XNeg(lidarCall.minXCurr), XMul(Frac(1, 2), vehicleAcc))

callD == XSub(XSq(callB), XMul(Num(4), callC))

callRoot1 == XDiv(XSub(XNeg(callB), XSqrt(callD)), Num(2))

callRoot2 == XDiv(XAdd(XNeg(callB), XSqrt(callD)), Num(2))

IsRoot(t) == XEq(XAdd(XAdd(XSq(t), XMul(callB, t)), callC), Num(0))

enteredUninitialized ==
    XEq(lidarCall.velIn, NotInitialized) /\ XEq(lidarCall.accIn, NotInitialized)

enteredVelocityKnown ==
    XNe(lidarCall.velIn, NotInitialized) /\ XEq(lidarCall.accIn, NotInitialized)

\* C9 as stated: a constant-acceleration call entered with the acceleration
\* not yet known (Uninitialized or VelocityKnown) returns the
\* constant-velocity TTC of that frame.
C9_FallbackWhileAccUnknownAtEntry ==
    (called /\ lidarCall.model = 1 /\ XEq(lidarCall.accIn, NotInitialized))
        => (ttcAssigned /\ SameValue(ttcLidar, callCV))

\* C9 amended: the acceleration is computed at the start of the call that is
\* entered with the velocity known, before the model is chosen.  A
\* constant-acceleration call returns the constant-velocity TTC exactly when
\* the acceleration still holds the not-initialized value after that update
\* (every call entered Uninitialized); a call entered in VelocityKnown sets
\* the acceleration to (thisFrameVelocity - velocity)/dT and, unless that
\* value is the not-initialized value itself, takes the quadratic branch in
\* that same call: a TTC it assigns is a root of t^2 + b*t + c = 0.
C9_FallbackWhileAccUnknownAfterUpdate ==
    (called /\ lidarCall.model = 1)
        => /\ enteredUninitialized => XEq(vehicleAcc, NotInitialized)
           /\ XEq(vehicleAcc, NotInitialized)
                => (ttcAssigned /\ SameValue(ttcLidar, callCV))
           /\ enteredVelocityKnown
                => SameValue(vehicleAcc,
                             XDiv(XSub(XDiv(XSub(lidarCall.minXPrev, lidarCall.minXCurr), callDT),
                                       lidarCall.velIn), callDT))
           /\ (XNe(vehicleAcc, NotInitialized) /\ ttcAssigned) => IsRoot(ttcLidar)

\* a call entered in VelocityKnown that took the quadratic branch and
\* delivered a root that is not the constant-velocity TTC
C9_Witness ==
    /\ called /\ lidarCall.model = 1
    /\ enteredVelocityKnown
    /\ XNe(vehicleAcc, NotInitialized)
    /\ ttcAssigned /\ IsRoot(ttcLidar)
    /\ ~SameValue(ttcLidar, callCV)

\* C10: in the quadratic branch with d > 0 the TTC is the smaller root when
\* both roots are positive, the positive root when exactly one is positive
\* (the other being negative or exactly zero), and the unavailable marker when
\* neither is positive.
C10_RootSelection ==
    (called /\ lidarCall.model = 1 /\ XNe(vehicleAcc, NotInitialized)
        /\ XGt(callD, Num(0)))
        => IF XGt(callRoot1, Num(0)) /\ XGt(callRoot2, Num(0))
           THEN ttcAssigned /\ XEq(ttcLidar, XMin(callRoot1, callRoot2))
           ELSE IF XGt(callRoot1, Num(0))
           THEN ttcAssigned /\ XEq(ttcLidar, callRoot1)
           ELSE IF XGt(callRoot2, Num(0))
           THEN ttcAssigned /\ XEq(ttcLidar, callRoot2)
           ELSE ttcAssigned /\ IsNaN(ttcLidar)

(***************************************************************************)
(* Properties of clusterLidarWithROI.                                      *)
(***************************************************************************)
lastFrame == dataBuffer[Len(dataBuffer)]

\* number of times the point lp stands in the point list of box b
Occurrences(boundingBoxes, b, lp) ==
    Cardinality({ k \in 1..Len(boundingBoxes[b].lidarPoints) :
                    boundingBoxes[b].lidarPoints[k] = lp })

\* the boxes whose shrunk rectangle holds the pixel of lp
Enclosing(boundingBoxes, lp) ==
    { b \in 1..Len(boundingBoxes) :
        contains(smallerBox(boundingBoxes[b].roi), project(P_rect_00, R_rect_00, RT, lp)) }

\* C3: after clusterLidarWithROI every lidar point of the frame stands in the
\* point list of at most one box: once in the list of the box whose shrunk
\* rectangle holds its pixel when there is exactly one such box, and in no
\* list when there is none or more than one.
C3_PointInAtMostOneCluster ==
    dataBuffer # <<>> =>
        \A i \in 1..Len(lastFrame.lidarPoints) :
            LET lp  == lastFrame.lidarPoints[i]
                enc == Enclosing(lastFrame.boundingBoxes, lp)
            IN  \A b \in 1..Len(lastFrame.boundingBoxes) :
                    Occurrences(lastFrame.boundingBoxes, b, lp)
                        = IF Cardinality(enc) = 1 /\ b \in enc THEN 1 ELSE 0

\* a frame with a point inside exactly one shrunk rectangle, appended to that
\* box, and a point inside two shrunk rectangles, appended to none
C3_Witness ==
    /\ dataBuffer # <<>>
    /\ \E i, j \in 1..Len(lastFrame.lidarPoints) :
         /\ Cardinality(Enclosing(lastFrame.boundingBoxes, lastFrame.lidarPoints[i])) = 1
         /\ \E b \in 1..Len(lastFrame.boundingBoxes) :
              lastFrame.boundingBoxes[b].lidarPoints = <<lastFrame.lidarPoints[i]>>
         /\ Cardinality(Enclosing(lastFrame.boundingBoxes, lastFrame.lidarPoints[j])) = 2
         /\ \A b \in 1..Len(lastFrame.boundingBoxes) :
              Occurrences(lastFrame.boundingBoxes, b, lastFrame.lidarPoints[j]) = 0

(***************************************************************************)
(* Properties of computeTTCCamera and of the frame loop.                   *)
(***************************************************************************)
cameraCalled == cameraCall # NoCall

\* a TTC value as promised: the unavailable marker or a positive finite
\* number
ValidTTC(t) == IsNaN(t) \/ PositiveFinite(t)

\* C1: every TTC value delivered by computeTTCLidar or by computeTTCCamera is
\* a strictly positive finite number or the unavailable marker (NaN), and is
\* a value the call itself assigned.
C1_TTCPositiveOrUnavailable ==
    /\ called => (ttcAssigned /\ ValidTTC(ttcLidar))
    /\ (cameraCalled /\ ~fault) => ValidTTC(ttcCamera)

\* C4: the frame loop pushes one lidar TTC and one camera TTC for every
\* matched pair of boxes it goes through, it is not ended by a fault, and
\* the camera entry of a pair whose keypoint-match list is empty is the
\* unavailable marker.
C4_OneRecordPerPair ==
    /\ ~fault
    /\ Len(TTCresult.lidarBasedTTC) = pairsDone
    /\ Len(TTCresult.cameraBasedTTC) = pairsDone
    /\ (cameraCalled /\ cameraCall.kptMatches = <<>>) => IsNaN(ttcCamera)

\* C7: a computeTTCCamera call on an empty match list, or on a list that
\* yields no distance ratio, returns the unavailable marker and does not
\* fault.
C7_NoPairsUnavailable ==
    (cameraCalled
        /\ distRatiosFrom(cameraCall.kptsPrev, cameraCall.kptsCurr,
                          cameraCall.kptMatches, 1, 2) = <<>>)
        => (~fault /\ IsNaN(ttcCamera))

(***************************************************************************)
(* The TTC output of computeTTCLidar.                                      *)
(***************************************************************************)
\* the quadratic branch was taken and has no positive root to deliver: the
\* discriminant is negative, or it is positive and neither root is positive
noPositiveRoot ==
    /\ lidarCall.model = 1 /\ XNe(vehicleAcc, NotInitialized)
    /\ \/ XLt(callD, Num(0))
       \/ XGt(callD, Num(0)) /\ ~XGt(callRoot1, Num(0)) /\ ~XGt(callRoot2, Num(0))

\* C11: every computeTTCLidar call assigns its TTC output (a number or the
\* unavailable marker NaN); when the discriminant is negative, or positive
\* with neither root positive, the output is the unavailable marker assigned
\* by the call and not a value the caller's variable held before.
C11_TTCOutputAlwaysSet ==
    called => /\ ttcAssigned
              /\ noPositiveRoot => IsNaN(ttcLidar)

\* the last call computed the acceleration (it was entered with the velocity
\* known and the acceleration not yet computed), or the acceleration holds a
\* value other than the not-initialized one
accComputed == known(vehicleAcc) \/ (called /\ enteredVelocityKnown)

\* C12: once the acceleration has been computed, a later computeTTCLidar
\* call leaves the acceleration value unchanged.
C12_AccelerationComputedOnce ==
    [][accComputed => vehicleAcc' = vehicleAcc]_vars

(***************************************************************************)
(* Properties of matchBoundingBoxes.                                       *)
(***************************************************************************)
matchCalled == Len(dataBuffer) = 2

prevBoxes == dataBuffer[1].boundingBoxes

currBoxes == dataBuffer[2].boundingBoxes

\* the number of pixels two rectangles cover together
unionArea(a, b) == area(a) + area(b) - area(RectAnd(a, b))

\* area(intersection) / area(union)
intersectionOverUnion(a, b) == XDiv(Num(area(RectAnd(a, b))), Num(unionArea(a, b)))

\* C13: the overlap score that matchBoundingBoxes computes for a previous
\* and a current rectangle is area(intersection) / area(union); it is 1 for
\* two identical rectangles of positive area and lies in [0, 1].
C13_ScoreIsIntersectionOverUnion ==
    matchCalled =>
        \A i \in 1..Len(prevBoxes), j \in 1..Len(currBoxes) :
            /\ SameValue(IOURatio(prevBoxes[i].roi, currBoxes[j].roi),
                         intersectionOverUnion(prevBoxes[i].roi, currBoxes[j].roi))
            /\ (prevBoxes[i].roi = currBoxes[j].roi /\ area(prevBoxes[i].roi) > 0)
                  => XEq(IOURatio(prevBoxes[i].roi, currBoxes[j].roi), Num(1))
            /\ XGe(IOURatio(prevBoxes[i].roi, currBoxes[j].roi), Num(0))
            /\ XGe(Num(1), IOURatio(prevBoxes[i].roi, currBoxes[j].roi))

\* the overlap score of previous box i and current box j, as computed
score(i, j) == IOURatio(prevBoxes[i].roi, currBoxes[j].roi)

\* current box j attains the best score of previous box i, and no current
\* box before it does
firstBest(i, j) ==
    /\ \A k \in 1..Len(currBoxes) : XGe(score(i, j), score(i, k))
    /\ \A k \in 1..(j - 1) : XLt(score(i, k), score(i, j))

\* the entries of bbMatches for previous box i
entriesOf(i) ==
    { e \in 1..Len(dataBuffer[2].bbMatches) :
        dataBuffer[2].bbMatches[e][1] = prevBoxes[i].boxID }

\* C14: matchBoundingBoxes records a pair (previous boxID, current boxID) for
\* a previous box if and only if its best score over the current boxes
\* exceeds 0.7; the recorded current box is the first one, in list order,
\* that attains the best score; a previous box whose best score does not
\* exceed 0.7, and every previous box when there is no current box, has no
\* entry; there are no other entries.
C14_BestMatchAboveThreshold ==
    matchCalled =>
        /\ \A i \in 1..Len(prevBoxes) :
              IF \E j \in 1..Len(currBoxes) : XGt(score(i, j), IOUThreshold)
              THEN \E j \in 1..Len(currBoxes) :
                     /\ firstBest(i, j)
                     /\ \E e \in 1..Len(dataBuffer[2].bbMatches) :
                          /\ entriesOf(i) = {e}
                          /\ dataBuffer[2].bbMatches[e]
                               = <<prevBoxes[i].boxID, currBoxes[j].boxID>>
              ELSE entriesOf(i) = {}
        /\ \A e \in 1..Len(dataBuffer[2].bbMatches) :
              \E i \in 1..Len(prevBoxes) : e \in entriesOf(i)

\* two current boxes tie for the best score of the first previous box, above
\* the threshold, and the first of them is recorded; the second previous box
\* has current boxes to compare with but none above the threshold, and no
\* entry
C14_Witness ==
    /\ matchCalled
    /\ Len(prevBoxes) = 2 /\ Len(currBoxes) = 2
    /\ firstBest(1, 1) /\ XEq(score(1, 1), score(1, 2))
    /\ XGt(score(1, 1), IOUThreshold)
    /\ XEq(score(2, 2), IOUThreshold)
    /\ dataBuffer[2].bbMatches = << <<prevBoxes[1].boxID, currBoxes[1].boxID>> >>

(***************************************************************************)
(* Properties of the shrunk rectangle.                                     *)
(***************************************************************************)
shrinkCalled == Len(dataBuffer) = 1

\* rectangle inner lies within rectangle outer
within(inner, outer) ==
    /\ outer.x <= inner.x /\ inner.x + inner.width <= outer.x + outer.width
    /\ outer.y <= inner.y /\ inner.y + inner.height <= outer.y + outer.height

\* the two rectangles have the same centre (x + width/2, y + height/2)
sameCentre(a, b) ==
    /\ 2 * a.x + a.width = 2 * b.x + b.width
    /\ 2 * a.y + a.height = 2 * b.y + b.height

\* C15 as stated: for every integer rectangle R and shrink factor s in
\* [0, 1), shrink(R, 0) = R, shrink(R, s) lies within R, and shrink(R, s) has
\* the same centre as R.
C15_ShrinkKeepsCentre ==
    shrinkCalled =>
        /\ dataBuffer[1].shrinkFactor[1] = 0 => dataBuffer[1].smallerBox = dataBuffer[1].roi
        /\ within(dataBuffer[1].smallerBox, dataBuffer[1].roi)
        /\ sameCentre(dataBuffer[1].smallerBox, dataBuffer[1].roi)

\* twice the distance between the centres of two rectangles, along each axis
centreShift(a, b) ==
    << Abs((2 * a.x + a.width) - (2 * b.x + b.width)),
       Abs((2 * a.y + a.height) - (2 * b.y + b.height)) >>

\* shrinkFactor * side / 2 is a whole number of pixels
wholeMargin(side, shrinkFactor) == (shrinkFactor[1] * side) % (2 * shrinkFactor[2]) = 0

\* C15 amended: the four fields of the shrunk rectangle are truncated to
\* whole pixels.  shrink(R, 0) = R and shrink(R, s) lies within R; the centre
\* of shrink(R, s) is at most one pixel away from the centre of R along each
\* axis, and it is the centre of R along an axis on which s * side / 2 is a
\* whole number.
C15_ShrinkKeepsCentreWithinOnePixel ==
    shrinkCalled =>
        LET roi          == dataBuffer[1].roi
            shrunk       == dataBuffer[1].smallerBox
            shrinkFactor == dataBuffer[1].shrinkFactor
        IN  /\ shrinkFactor[1] = 0 => shrunk = roi
            /\ within(shrunk, roi)
            /\ centreShift(shrunk, roi)[1] <= 2
            /\ centreShift(shrunk, roi)[2] <= 2
            /\ wholeMargin(roi.width, shrinkFactor) => centreShift(shrunk, roi)[1] = 0
            /\ wholeMargin(roi.height, shrinkFactor) => centreShift(shrunk, roi)[2] = 0

\* a rectangle 15 wide and 20 high shrunk by 0.10: the margin 0.75 is
\* truncated on the left and the width 13.5 to 13, so the centre moves one
\* pixel to the left; the margin 1 above and below keeps the centre's row
C15_Witness ==
    /\ shrinkCalled
    /\ dataBuffer[1].shrinkFactor = <<ShrinkNum, ShrinkDen>>
    /\ dataBuffer[1].roi = Rect(7, -5, 15, 20)
    /\ dataBuffer[1].smallerBox = Rect(7, -4, 13, 18)
    /\ centreShift(dataBuffer[1].smallerBox, dataBuffer[1].roi) = <<2, 0>>

(***************************************************************************)
(* Properties of clusterKptMatchesWithROI in the frame loop.               *)
(***************************************************************************)
prevFrame == dataBuffer[Len(dataBuffer) - 1]

\* entry e of the current frame's bbMatches has been gone through by the
\* loop of main, 344
pairProcessed(e) == pairIdx = 0 \/ e < pairIdx

\* the pair of entry e passed the guard of main, 365, so that
\* clusterKptMatchesWithROI ran for its current box
pairEstimated(e) ==
    /\ pairProcessed(e)
    /\ Len(prevFrame.boundingBoxes[boxWithID(prevFrame.boundingBoxes,
                                             lastFrame.bbMatches[e][1])].lidarPoints) > 0
    /\ Len(lastFrame.boundingBoxes[boxWithID(lastFrame.boundingBoxes,
                                             lastFrame.bbMatches[e][2])].lidarPoints) > 0

\* dist lies within mean +/- 1.7 * std, the ends included
withinBand(dist, mean, std) ==
    /\ XGe(dist, XSub(mean, XMul(distThreshold, std)))
    /\ XGe(XAdd(mean, XMul(distThreshold, std)), dist)

\* mean and standard deviation of the displacement over the matches of the
\* current frame
frameMean ==
    XDiv(distSumFrom(prevFrame.keypoints, lastFrame.keypoints, lastFrame.kptMatches, 1, FALSE),
         Num(Len(lastFrame.kptMatches)))

frameStd ==
    XSqrt(XSub(XDiv(distSumFrom(prevFrame.keypoints, lastFrame.keypoints,
                                lastFrame.kptMatches, 1, TRUE),
                    Num(Len(lastFrame.kptMatches))),
               XSq(frameMean)))

\* match m of the current frame is to be kept for the box: both its pixels
\* lie inside the shrunk rectangle and its displacement lies within the band
toKeep(box, m, mean, std) ==
    /\ contains(smallerBox(box.roi), At(lastFrame.keypoints, m.trainIdx).pt)
    /\ contains(smallerBox(box.roi), At(prevFrame.keypoints, m.queryIdx).pt)
    /\ withinBand(matchDist(prevFrame.keypoints, lastFrame.keypoints, m), mean, std)

\* C16: after clusterKptMatchesWithROI ran for a current box, the box holds a
\* match of the frame if and only if both pixels of the match lie inside the
\* 10%-shrunk rectangle and its displacement lies within mean +/- 1.7*stddev
\* over all matches of the frame; so a match inside the rectangle whose
\* displacement equals the frame mean is kept, also when all displacements
\* of the frame are equal.
C16_KeptInsideBoxAndBand ==
    Len(dataBuffer) = 2 =>
        \A e \in 1..Len(lastFrame.bbMatches) :
            pairEstimated(e) =>
                LET box == lastFrame.boundingBoxes[boxWithID(lastFrame.boundingBoxes,
                                                             lastFrame.bbMatches[e][2])]
                IN  \A i \in 1..Len(lastFrame.kptMatches) :
                        toKeep(box, lastFrame.kptMatches[i], frameMean, frameStd)
                            <=> \E k \in 1..Len(box.kptMatches) :
                                    box.kptMatches[k] = lastFrame.kptMatches[i]

(***************************************************************************)
(* The distance ratios of computeTTCCamera.                                *)
(***************************************************************************)
\* the ratios of the unordered pairs {i, j}, i < j, of the match list, each
\* pair taken once
RECURSIVE ratiosOncePerPair(_, _, _, _, _)
ratiosOncePerPair(kptsPrev, kptsCurr, kptMatches, i, j) ==
    IF i > Len(kptMatches) - 1 THEN <<>>
    ELSE IF j > Len(kptMatches)
         THEN ratiosOncePerPair(kptsPrev, kptsCurr, kptMatches, i + 1, i + 2)
         ELSE distRatioOf(kptsPrev, kptsCurr, kptMatches[i], kptMatches[j])
              \o ratiosOncePerPair(kptsPrev, kptsCurr, kptMatches, i, j + 1)

\* C17: on a non-empty match list computeTTCCamera returns -dT/(1 - m),
\* dT = 1/frameRate, m being the median of the ratios distCurr/distPrev of
\* the unordered pairs of correspondences that are not skipped, each pair
\* contributing its ratio exactly once.
C17_EachPairOnce ==
    (cameraCalled /\ Len(cameraCall.kptMatches) > 0)
        => SameValue(ttcCamera,
                     ttcFromRatios(ratiosOncePerPair(cameraCall.kptsPrev, cameraCall.kptsCurr,
                                                     cameraCall.kptMatches, 1, 2),
                                   frameRate))

(***************************************************************************)
(* The order of the calls made for one image.                              *)
(***************************************************************************)
\* every call of a function of the set first made for the image comes before
\* every call of a function of the set then; with samePair, only calls for
\* the same pair of boxes are compared
callsBefore(first, then, samePair) ==
    \A i, j \in 1..Len(callLog) :
        (/\ callLog[i].fn \in first /\ callLog[j].fn \in then
         /\ samePair => callLog[i].pair = callLog[j].pair) => i < j

\* C18 as stated: for each image, clusterLidarWithROI and matchBoundingBoxes
\* complete before clusterKptMatchesWithROI runs for any matched pair, and
\* clusterKptMatchesWithROI for a pair completes before computeTTCLidar and
\* before computeTTCCamera run for that pair.
C18_ClusterBeforeBothEstimators ==
    /\ callsBefore({"clusterLidarWithROI", "matchBoundingBoxes"},
                   {"clusterKptMatchesWithROI"}, FALSE)
    /\ callsBefore({"clusterKptMatchesWithROI"},
                   {"computeTTCLidar", "computeTTCCamera"}, TRUE)

\* C18 amended: for each image, clusterLidarWithROI and matchBoundingBoxes
\* complete before any call is made for a matched pair; for each pair,
\* computeTTCLidar runs first, then clusterKptMatchesWithROI, then
\* computeTTCCamera: only the camera estimator waits for
\* clusterKptMatchesWithROI.
C18_ClusterBeforeCameraEstimator ==
    /\ callsBefore({"clusterLidarWithROI", "matchBoundingBoxes"},
                   {"computeTTCLidar", "clusterKptMatchesWithROI", "computeTTCCamera"},
                   FALSE)
    /\ callsBefore({"computeTTCLidar"}, {"clusterKptMatchesWithROI"}, TRUE)
    /\ callsBefore({"clusterKptMatchesWithROI"}, {"computeTTCCamera"}, TRUE)

\* an image with two matched pairs, both estimated
C18_Witness ==
    /\ Len(callLog) = 8
    /\ callLog[1].fn = "clusterLidarWithROI" /\ callLog[2].fn = "matchBoundingBoxes"
    /\ callLog[3] = [fn |-> "computeTTCLidar", pair |-> 1]
    /\ callLog[4] = [fn |-> "clusterKptMatchesWithROI", pair |-> 1]
    /\ callLog[5] = [fn |-> "computeTTCCamera", pair |-> 1]
    /\ callLog[8] = [fn |-> "computeTTCCamera", pair |-> 2]

(***************************************************************************)
(* The kinematic state within one image.                                   *)
(***************************************************************************)
\* computeTTCLidar has been called for the current image, and the last such
\* call changed the velocity or the acceleration
updatedInFrame ==
    /\ \E i \in 1..Len(callLog) : callLog[i].fn = "computeTTCLidar"
    /\ lidarCall.velIn # vehicleVel \/ lidarCall.accIn # vehicleAcc

\* C19: while one image is processed the kinematic state (vehicleVel,
\* vehicleAcc) is updated at most once, however many matched pairs the image
\* yields: once a call for the image has changed it, no later step for the
\* same image changes it again.
C19_OneUpdatePerFrame ==
    [][(updatedInFrame /\ pairIdx > 0)
          => (vehicleVel' = vehicleVel /\ vehicleAcc' = vehicleAcc)]_vars

(***************************************************************************)
(* The edges of the shrunk rectangle in clusterLidarWithROI.               *)
(***************************************************************************)
\* the pixel lies inside the rectangle and on none of its four edges
strictlyInside(rect, pt) ==
    /\ rect.x < pt.x /\ pt.x < rect.x + rect.width
    /\ rect.y < pt.y /\ pt.y < rect.y + rect.height

\* the boxes whose shrunk rectangle holds the pixel of lp strictly inside
StrictlyEnclosing(boundingBoxes, lp) ==
    { b \in 1..Len(boundingBoxes) :
        strictlyInside(smallerBox(boundingBoxes[b].roi),
                       project(P_rect_00, R_rect_00, RT, lp)) }

\* C20: clusterLidarWithROI counts a box as enclosing a lidar point if and
\* only if the pixel of the point lies strictly inside the shrunk rectangle
\* of the box, a pixel on the left, top, right or bottom edge not being
\* inside: a point is appended to a box exactly when that box is the only
\* one whose shrunk rectangle holds its pixel strictly inside.
C20_EdgePixelsOutside ==
    dataBuffer # <<>> =>
        \A i \in 1..Len(lastFrame.lidarPoints) :
            \A b \in 1..Len(lastFrame.boundingBoxes) :
                Occurrences(lastFrame.boundingBoxes, b, lastFrame.lidarPoints[i])
                    = IF StrictlyEnclosing(lastFrame.boundingBoxes, lastFrame.lidarPoints[i]) = {b}
                      THEN 1 ELSE 0

(***************************************************************************)
(* The kinematic state under the constant-velocity selector.               *)
(***************************************************************************)
\* C21: a computeTTCLidar call made with the constant-velocity selector
\* leaves the kinematic state (vehicleVel and vehicleAcc) as it was,
\* whatever state it is called in.
C21_ConstantVelocityKeepsState ==
    [][(TTCcalModel = 0 /\ nCalls' = nCalls + 1)
          => (vehicleVel' = vehicleVel /\ vehicleAcc' = vehicleAcc)]_vars

(***************************************************************************)
(* The matches of a box after the loop over the matched boxes.             *)
(***************************************************************************)
\* number of times the match m stands in the match list of the box
matchOccurrences(box, m) ==
    Cardinality({ k \in 1..Len(box.kptMatches) : box.kptMatches[k] = m })

\* C22: after all matched pairs of an image have been processed, the match
\* list of every box of the current image holds each match of the image at
\* most once, also when several boxes of the previous image are matched to
\* the same box of the current image.
C22_EachMatchAtMostOnce ==
    (Len(dataBuffer) = 2 /\ pairIdx = 0)
        => \A b \in 1..Len(lastFrame.boundingBoxes) :
               \A i \in 1..Len(lastFrame.kptMatches) :
                   matchOccurrences(lastFrame.boundingBoxes[b], lastFrame.kptMatches[i]) <= 1

====
